---- MODULE Spec2Model ----
(***************************************************************************)
(* A model of the trading bot's validation, signing and order pipeline:    *)
(*   bot/validators.py  OrderValidator                                     *)
(*   bot/client.py      BinanceClient                                      *)
(*   bot/orders.py      OrderManager                                       *)
(*   cli.py             main                                               *)
(*                                                                         *)
(* Python strings are sequences of one-character strings, so that          *)
(* upper-casing, the symbol regex and float parsing are computed           *)
(* character by character.  Python's None is the constant None; an         *)
(* Optional[str] is NoneStr (the empty tuple) or a one-element tuple       *)
(* Some(s).                                                                *)
(***************************************************************************)
EXTENDS Integers, Sequences, FiniteSets, TLC

VARIABLES
    pc,        \* position of the running call
    op,        \* the operation being run ("none" when idle)
    args,      \* the raw arguments of the running call (for _request, the
               \* mapping the caller holds)
    validated, \* the tuple validate_order_params returned, or None
    result,    \* the value of a finished unit call of a validator; in a run
               \* of main, whether a client exists and the exit code
    printed,   \* what the call has printed so far, in order
    nclient,   \* how many times a method of BinanceClient was invoked
    wire,      \* the HTTP requests issued by the call, in order
    http,      \* what the HTTP layer answered the pending request
    now,       \* the wall clock, epoch milliseconds
    raised,    \* the exception that reached the caller, or None
    returned   \* the value returned to the caller, or None

vars == <<pc, op, args, validated, result, printed, nclient, wire, http, now,
          raised, returned>>

----------------------------------------------------------------------------
(* Bounds of the model.                                                    *)

\* longest symbol string drawn by SpecSymbol
MaxSymLen == 6

\* longest quantity / price string drawn by SpecNumber
MaxNumLen == 4

\* the clock stops advancing here
MaxClock == 1

MaxCalls == 3

----------------------------------------------------------------------------
(* Python values.                                                          *)

None == [none |-> TRUE]

NoneStr == <<>>

Some(s) == <<s>>

\* `not x` for an Optional[str]: None and the empty string are falsy
IsFalsyStr(x) == x = NoneStr \/ x = Some(<<>>)

AllStrings(alphabet, n) == UNION {[1..k -> alphabet] : k \in 0..n}

RECURSIVE Flatten(_)
Flatten(ss) == IF ss = <<>> THEN <<>> ELSE Head(ss) \o Flatten(Tail(ss))

LowerLetters ==
    <<"a","b","c","d","e","f","g","h","i","j","k","l","m",
      "n","o","p","q","r","s","t","u","v","w","x","y","z">>

UpperLetters ==
    <<"A","B","C","D","E","F","G","H","I","J","K","L","M",
      "N","O","P","Q","R","S","T","U","V","W","X","Y","Z">>

Digits == <<"0","1","2","3","4","5","6","7","8","9">>

Range(f) == {f[i] : i \in DOMAIN f}

\* the one character U+00DF, LATIN SMALL LETTER SHARP S
SharpS == "<U+00DF>"

\* str.upper() of one character: a cased letter maps to its capital, the
\* sharp s maps to the two letters SS, any other character to itself
UpperChar(c) ==
    IF \E i \in DOMAIN LowerLetters : LowerLetters[i] = c
    THEN <<UpperLetters[CHOOSE i \in DOMAIN LowerLetters : LowerLetters[i] = c]>>
    ELSE IF c = SharpS THEN <<"S", "S">> ELSE <<c>>

\* str.lower() of one character, ASCII letters
LowerChar(c) ==
    IF \E i \in DOMAIN UpperLetters : UpperLetters[i] = c
    THEN LowerLetters[CHOOSE i \in DOMAIN UpperLetters : UpperLetters[i] = c]
    ELSE c

Upper(s) == Flatten([i \in DOMAIN s |-> UpperChar(s[i])])

Lower(s) == [i \in DOMAIN s |-> LowerChar(s[i])]

\* an exception: its class and its message (text and the value formatted in)
Exc(type, text, arg) == [type |-> type, text |-> text, arg |-> arg]

ValidationError(text, arg) == Exc("ValidationError", text, arg)

\* the outcome of a call: a returned value or a raised exception
Ret(v) == [ok |-> TRUE, val |-> v]

Raise(e) == [ok |-> FALSE, exc |-> e]

----------------------------------------------------------------------------
(* validators.py: validate_symbol, validate_side, validate_order_type      *)

VALID_SIDES == <<"BUY", "SELL">>

VALID_ORDER_TYPES == <<"MARKET", "LIMIT">>

MinSymbolLen == 6

\* the character class [A-Z0-9]
InClassAZ09(c) == c \in Range(UpperLetters) \/ c \in Range(Digits)

\* re.match(r'^[A-Z0-9]+$', s): one or more class characters from the start,
\* then `$`, which matches at the end of the string and also just before a
\* newline that ends the string
ReMatchSymbol(s) ==
    \E n \in 1..Len(s) :
        /\ \A i \in 1..n : InClassAZ09(s[i])
        /\ \/ n = Len(s)
           \/ n = Len(s) - 1 /\ s[Len(s)] = "\n"

\* a faulty variant: validate_symbol without the upper-casing of the input
validate_symbol_NoUpper(symbol) ==
    IF symbol = <<>>
    THEN Raise(ValidationError("Symbol cannot be empty", <<>>))
    ELSE IF ~ReMatchSymbol(symbol)
    THEN Raise(ValidationError("Invalid symbol format", symbol))
    ELSE IF Len(symbol) < MinSymbolLen
    THEN Raise(ValidationError("Symbol too short", symbol))
    ELSE Ret(symbol)

validate_symbol(symbol) ==
    IF symbol = <<>>
    THEN Raise(ValidationError("Symbol cannot be empty", <<>>))
    ELSE LET u == Upper(symbol) IN
         IF ~ReMatchSymbol(u)
         THEN Raise(ValidationError("Invalid symbol format", u))
         ELSE IF Len(u) < MinSymbolLen
         THEN Raise(ValidationError("Symbol too short", u))
         ELSE Ret(u)

\* a keyword is written as a TLA+ string; as a Python string it is the
\* sequence of its characters
Word(w) ==
    CASE w = "BUY"    -> <<"B","U","Y">>
      [] w = "SELL"   -> <<"S","E","L","L">>
      [] w = "MARKET" -> <<"M","A","R","K","E","T">>
      [] w = "LIMIT"  -> <<"L","I","M","I","T">>

validate_side(side) ==
    IF side = <<>>
    THEN Raise(ValidationError("Side cannot be empty", <<>>))
    ELSE LET u == Upper(side) IN
         IF ~\E i \in DOMAIN VALID_SIDES : Word(VALID_SIDES[i]) = u
         THEN Raise(ValidationError("Invalid side", u))
         ELSE Ret(u)

validate_order_type(order_type) ==
    IF order_type = <<>>
    THEN Raise(ValidationError("Order type cannot be empty", <<>>))
    ELSE LET u == Upper(order_type) IN
         IF ~\E i \in DOMAIN VALID_ORDER_TYPES : Word(VALID_ORDER_TYPES[i]) = u
         THEN Raise(ValidationError("Invalid order type", u))
         ELSE Ret(u)

----------------------------------------------------------------------------
(* Python floats and float(str).                                           *)
(*                                                                         *)
(* A finite float is kept as the decimal it was parsed from, normalised:   *)
(* (-1)^neg * m * 10^e with m not divisible by 10 (m = 0, e = 0 for zero). *)
(* For inputs of at most 8 significant digits this names the double        *)
(* exactly: distinct decimals give distinct doubles, comparison is the     *)
(* comparison of the decimals, and the two places where rounding changes   *)
(* the class of the value, overflow to infinity and underflow to zero, are *)
(* applied by RoundToDouble.                                               *)

Fin(neg, m, e) == [kind |-> "fin", neg |-> neg, m |-> m, e |-> e]

Inf(neg) == [kind |-> "inf", neg |-> neg, m |-> 0, e |-> 0]

NaN == [kind |-> "nan", neg |-> FALSE, m |-> 0, e |-> 0]

IsFinite(v) == v.kind = "fin"

RECURSIVE NumDigits(_)
NumDigits(m) == IF m < 10 THEN 1 ELSE 1 + NumDigits(m \div 10)

RECURSIVE Pow10(_)
Pow10(k) == IF k = 0 THEN 1 ELSE 10 * Pow10(k - 1)

RECURSIVE Normalize(_, _)
Normalize(m, e) ==
    IF m = 0 THEN [m |-> 0, e |-> 0]
    ELSE IF m % 10 = 0 THEN Normalize(m \div 10, e + 1)
    ELSE [m |-> m, e |-> e]

\* the decimal order of magnitude: 10^Order(v) <= |v| < 10^(Order(v)+1)
Order(v) == NumDigits(v.m) + v.e - 1

\* the first 8 significant digits of |v|, as an integer
Lead(v) == v.m * Pow10(8 - NumDigits(v.m))

\* the double nearest to the decimal: DBL_MAX is 1.7976931348623157e308 and
\* half the smallest subnormal is 2.4703282292062327e-324
RoundToDouble(neg, m, e) ==
    LET n == Normalize(m, e)
        v == Fin(neg, n.m, n.e)
    IN IF n.m = 0 THEN v
       ELSE IF Order(v) > 308 \/ (Order(v) = 308 /\ Lead(v) > 17976931)
       THEN Inf(neg)
       ELSE IF Order(v) < -324 \/ (Order(v) = -324 /\ Lead(v) <= 24703282)
       THEN Fin(neg, 0, 0)
       ELSE v

FloatOfInt(n) == IF n < 0 THEN RoundToDouble(TRUE, -n, 0) ELSE RoundToDouble(FALSE, n, 0)

Sgn(v) == IF v.kind = "fin" /\ v.m = 0 THEN 0 ELSE IF v.neg THEN -1 ELSE 1

\* |a| < |b| for nonzero a, b that are not NaN
MagLt(a, b) ==
    IF a.kind = "inf" THEN FALSE
    ELSE IF b.kind = "inf" THEN TRUE
    ELSE IF Order(a) # Order(b) THEN Order(a) < Order(b)
    ELSE Lead(a) < Lead(b)

\* Python's a < b, a <= b, a > b on floats: every comparison with NaN is False
FloatLt(a, b) ==
    /\ a.kind # "nan" /\ b.kind # "nan"
    /\ IF Sgn(a) # Sgn(b) THEN Sgn(a) < Sgn(b)
       ELSE IF Sgn(a) = 0 THEN FALSE
       ELSE IF Sgn(a) = 1 THEN MagLt(a, b) ELSE MagLt(b, a)

FloatLe(a, b) ==
    /\ a.kind # "nan" /\ b.kind # "nan"
    /\ ~FloatLt(b, a)

FloatGt(a, b) == FloatLt(b, a)

\* bool(x) of a float: zero is falsy, everything else (NaN too) is truthy
FloatTruthy(v) == Sgn(v) # 0

IsWS(c) == c \in {" ", "\t", "\n", "\r", "\f"}

RECURSIVE LStrip(_)
LStrip(s) == IF s # <<>> /\ IsWS(Head(s)) THEN LStrip(Tail(s)) ELSE s

RECURSIVE RStrip(_)
RStrip(s) ==
    IF s # <<>> /\ IsWS(s[Len(s)]) THEN RStrip(SubSeq(s, 1, Len(s) - 1)) ELSE s

Strip(s) == RStrip(LStrip(s))

IsDigit(c) == c \in Range(Digits)

DigitVal(c) == (CHOOSE i \in DOMAIN Digits : Digits[i] = c) - 1

\* digitpart ::= digit (["_"] digit)*
IsDigitPart(s) ==
    /\ s # <<>>
    /\ \A i \in DOMAIN s : IsDigit(s[i]) \/ s[i] = "_"
    /\ IsDigit(s[1]) /\ IsDigit(s[Len(s)])
    /\ \A i \in 1..(Len(s) - 1) : ~(s[i] = "_" /\ s[i + 1] = "_")

DigitsOf(s) == SelectSeq(s, IsDigit)

RECURSIVE NatOf(_)
NatOf(ds) ==
    IF ds = <<>> THEN 0
    ELSE 10 * NatOf(SubSeq(ds, 1, Len(ds) - 1)) + DigitVal(ds[Len(ds)])

\* the first index of s holding a character of cs, 0 when there is none
IndexOf(s, cs) ==
    IF \E i \in DOMAIN s : s[i] \in cs
    THEN CHOOSE i \in DOMAIN s : s[i] \in cs /\ \A j \in 1..(i - 1) : s[j] \notin cs
    ELSE 0

\* [digitpart] "." [digitpart] | digitpart, then an optional exponent
ParseDecimal(neg, b) ==
    LET ePos == IndexOf(b, {"e", "E"})
        mant == IF ePos = 0 THEN b ELSE SubSeq(b, 1, ePos - 1)
        expo == IF ePos = 0 THEN <<>> ELSE SubSeq(b, ePos + 1, Len(b))
        expSigned == expo # <<>> /\ expo[1] \in {"+", "-"}
        expNeg == expSigned /\ expo[1] = "-"
        expDigits == IF expSigned THEN Tail(expo) ELSE expo
        dot == IndexOf(mant, {"."})
        ip == IF dot = 0 THEN mant ELSE SubSeq(mant, 1, dot - 1)
        fp == IF dot = 0 THEN <<>> ELSE SubSeq(mant, dot + 1, Len(mant))
        mantOK == IF dot = 0 THEN IsDigitPart(ip)
                  ELSE \/ IsDigitPart(ip) /\ (fp = <<>> \/ IsDigitPart(fp))
                       \/ ip = <<>> /\ IsDigitPart(fp)
        expOK == ePos = 0 \/ IsDigitPart(expDigits)
        expVal == IF ePos = 0 THEN 0
                  ELSE IF expNeg THEN 0 - NatOf(DigitsOf(expDigits))
                  ELSE NatOf(DigitsOf(expDigits))
    IN IF mantOK /\ expOK
       THEN Ret(RoundToDouble(neg, NatOf(DigitsOf(ip) \o DigitsOf(fp)),
                              expVal - Len(DigitsOf(fp))))
       ELSE Raise(Exc("ValueError", "could not convert string to float", b))

\* float(s) for a str s: surrounding whitespace is dropped, then an optional
\* sign, then inf / infinity / nan in any case, or a decimal number
ParseFloat(s) ==
    LET t == Strip(s)
        hasSign == t # <<>> /\ t[1] \in {"+", "-"}
        neg == hasSign /\ t[1] = "-"
        body == IF hasSign THEN Tail(t) ELSE t
        low == Lower(body)
    IN IF low \in {<<"i","n","f">>, <<"i","n","f","i","n","i","t","y">>}
       THEN Ret(Inf(neg))
       ELSE IF low = <<"n","a","n">> THEN Ret(NaN)
       ELSE ParseDecimal(neg, body)

\* float(x) for an Optional[str]: float(None) raises TypeError
PyFloat(x) ==
    IF x = NoneStr THEN Raise(Exc("TypeError", "float() argument must be a string", None))
    ELSE ParseFloat(x[1])

----------------------------------------------------------------------------
(* validators.py: validate_quantity, validate_price, validate_order_params *)

\* a faulty variant: the upper bound itself is refused (>= for >)
validate_quantity_RejectBoundary(quantity) ==
    LET p == ParseFloat(quantity) IN
    IF ~p.ok
    THEN Raise(ValidationError("Invalid quantity format", quantity))
    ELSE IF FloatLe(p.val, FloatOfInt(0))
    THEN Raise(ValidationError("Quantity must be positive", p.val))
    ELSE IF FloatLe(FloatOfInt(1000000), p.val)
    THEN Raise(ValidationError("Quantity seems too large", p.val))
    ELSE Ret(p.val)

QuantityMax == 1000000

validate_quantity(quantity) ==
    LET p == ParseFloat(quantity) IN
    IF ~p.ok
    THEN Raise(ValidationError("Invalid quantity format", quantity))
    ELSE IF FloatLe(p.val, FloatOfInt(0))
    THEN Raise(ValidationError("Quantity must be positive", p.val))
    ELSE IF FloatGt(p.val, FloatOfInt(QuantityMax))
    THEN Raise(ValidationError("Quantity seems too large", p.val))
    ELSE Ret(p.val)

\* a faulty variant: a price given with a MARKET order is parsed and kept
validate_price_KeepMarketPrice(price, order_type) ==
    IF IsFalsyStr(price)
    THEN IF order_type = Word("LIMIT")
         THEN Raise(ValidationError("Price is required for LIMIT orders", None))
         ELSE Ret(None)
    ELSE LET p == PyFloat(price) IN
         IF ~p.ok
         THEN IF order_type = Word("LIMIT")
              THEN Raise(ValidationError("Invalid price format", price))
              ELSE Ret(None)
         ELSE IF FloatLe(p.val, FloatOfInt(0))
         THEN IF order_type = Word("LIMIT")
              THEN Raise(ValidationError("Price must be positive", p.val))
              ELSE Ret(None)
         ELSE Ret(p.val)

\* a faulty variant: the price is checked before the order type is looked at
validate_price_CheckedForMarket(price, order_type) ==
    IF IsFalsyStr(price)
    THEN IF order_type = Word("LIMIT")
         THEN Raise(ValidationError("Price is required for LIMIT orders", None))
         ELSE Ret(None)
    ELSE LET p == PyFloat(price) IN
         IF ~p.ok
         THEN Raise(ValidationError("Invalid price format", price))
         ELSE IF FloatLe(p.val, FloatOfInt(0))
         THEN Raise(ValidationError("Price must be positive", p.val))
         ELSE IF order_type = Word("LIMIT") THEN Ret(p.val) ELSE Ret(None)

\* a faulty variant: a LIMIT price of zero is let through (< for <=)
validate_price_AllowZero(price, order_type) ==
    IF order_type = Word("MARKET")
    THEN Ret(None)
    ELSE IF order_type = Word("LIMIT")
    THEN IF IsFalsyStr(price)
         THEN Raise(ValidationError("Price is required for LIMIT orders", None))
         ELSE LET p == PyFloat(price) IN
              IF ~p.ok
              THEN Raise(ValidationError("Invalid price format", price))
              ELSE IF FloatLt(p.val, FloatOfInt(0))
              THEN Raise(ValidationError("Price must be positive", p.val))
              ELSE Ret(p.val)
    ELSE Ret(None)

\* price is an Optional[str]; order_type is compared as it is handed in
validate_price(price, order_type) ==
    IF order_type = Word("MARKET")
    THEN Ret(None)
    ELSE IF order_type = Word("LIMIT")
    THEN IF IsFalsyStr(price)
         THEN Raise(ValidationError("Price is required for LIMIT orders", None))
         ELSE LET p == PyFloat(price) IN
              IF ~p.ok
              THEN Raise(ValidationError("Invalid price format", price))
              ELSE IF FloatLe(p.val, FloatOfInt(0))
              THEN Raise(ValidationError("Price must be positive", p.val))
              ELSE Ret(p.val)
    ELSE Ret(None)

\* a faulty variant: quantity and price are checked before the other fields,
\* the price against the order type as it was typed
validate_order_params_NumbersFirst(symbol, side, order_type, quantity, price) ==
    LET q == validate_quantity(quantity) IN
    IF ~q.ok THEN q ELSE
    LET p == validate_price(price, order_type) IN
    IF ~p.ok THEN p ELSE
    LET s == validate_symbol(symbol) IN
    IF ~s.ok THEN s ELSE
    LET d == validate_side(side) IN
    IF ~d.ok THEN d ELSE
    LET t == validate_order_type(order_type) IN
    IF ~t.ok THEN t ELSE
    Ret([symbol |-> s.val, side |-> d.val, order_type |-> t.val,
         quantity |-> q.val, price |-> p.val])

\* the five checks in sequence; the first exception ends the call
validate_order_params(symbol, side, order_type, quantity, price) ==
    LET s == validate_symbol(symbol) IN
    IF ~s.ok THEN s ELSE
    LET d == validate_side(side) IN
    IF ~d.ok THEN d ELSE
    LET t == validate_order_type(order_type) IN
    IF ~t.ok THEN t ELSE
    LET q == validate_quantity(quantity) IN
    IF ~q.ok THEN q ELSE
    LET p == validate_price(price, t.val) IN
    IF ~p.ok THEN p ELSE
    Ret([symbol |-> s.val, side |-> d.val, order_type |-> t.val,
         quantity |-> q.val, price |-> p.val])

----------------------------------------------------------------------------
(* Python dicts, str() and urlencode.                                      *)
(*                                                                         *)
(* A dict is the sequence of its items in insertion order.  A parameter    *)
(* value is tagged with its Python type: PStr, PInt, PFloat, or PHex for   *)
(* a hex digest.                                                           *)

PStr(s) == [t |-> "str", v |-> s]

PInt(n) == [t |-> "int", v |-> n]

PFloat(f) == [t |-> "float", v |-> f]

PHex(h) == [t |-> "hex", v |-> h]

Item(k, v) == [key |-> k, val |-> v]

Keys(d) == {d[i].key : i \in DOMAIN d}

\* d[k] = v: an existing key keeps its position, a new key goes last
DictSet(d, k, v) ==
    IF k \in Keys(d)
    THEN [i \in DOMAIN d |-> IF d[i].key = k THEN Item(k, v) ELSE d[i]]
    ELSE Append(d, Item(k, v))

RECURSIVE DigitsSeq(_)
DigitsSeq(n) ==
    IF n < 10 THEN <<Digits[n + 1]>>
    ELSE Append(DigitsSeq(n \div 10), Digits[(n % 10) + 1])

IntToStr(n) == IF n < 0 THEN <<"-">> \o DigitsSeq(0 - n) ELSE DigitsSeq(n)

Zeros(k) == [i \in 1..k |-> "0"]

\* repr(float): the shortest digits, in fixed notation when the decimal
\* exponent is in -4..15 and in scientific notation otherwise
FloatRepr(v) ==
    IF v.kind = "nan" THEN <<"n","a","n">>
    ELSE LET sign == IF v.neg THEN <<"-">> ELSE <<>> IN
    IF v.kind = "inf" THEN sign \o <<"i","n","f">>
    ELSE IF v.m = 0 THEN sign \o <<"0",".","0">>
    ELSE LET D == DigitsSeq(v.m)
             d == Len(D)
             o == Order(v)
             absO == IF o < 0 THEN 0 - o ELSE o
         IN sign \o
            (IF o < -4 \/ o >= 16
             THEN <<D[1]>> \o (IF d > 1 THEN <<".">> \o SubSeq(D, 2, d) ELSE <<>>)
                  \o <<"e", IF o < 0 THEN "-" ELSE "+">>
                  \o (IF absO < 10 THEN <<"0">> ELSE <<>>) \o DigitsSeq(absO)
             ELSE IF o < 0 THEN <<"0", ".">> \o Zeros(0 - o - 1) \o D
             ELSE IF d <= o + 1 THEN D \o Zeros(o + 1 - d) \o <<".", "0">>
             ELSE SubSeq(D, 1, o + 1) \o <<".">> \o SubSeq(D, o + 2, d))

\* str(v) as urlencode applies it to a parameter value; a hex digest is one
\* opaque symbol
PyStr(v) ==
    CASE v.t = "str"   -> v.v
      [] v.t = "int"   -> IntToStr(v.v)
      [] v.t = "float" -> FloatRepr(v.v)
      [] v.t = "hex"   -> <<v.v>>

\* urlencode(params): key=value fields in the dict's order (joined with &)
urlencode(params) ==
    [i \in DOMAIN params |-> [key |-> params[i].key, text |-> PyStr(params[i].val)]]

----------------------------------------------------------------------------
(* client.py: BinanceClient                                                *)

\* self.api_secret, fixed at construction
api_secret == "secret"

\* hmac.new(key, msg, sha256).hexdigest(), as a symbolic term: equal digests
\* come from equal keys and messages only
HmacSha256Hex(key, msg) == [hmac |-> "sha256", key |-> key, msg |-> msg]

_generate_signature(params) == HmacSha256Hex(api_secret, urlencode(params))

\* a faulty variant: the signature is computed before the timestamp is added
RequestParams_SignedBeforeTimestamp(params, signed, clock) ==
    IF signed
    THEN LET p1 == DictSet(params, "timestamp", PInt(clock))
         IN DictSet(p1, "signature", PHex(_generate_signature(params)))
    ELSE params

\* _request up to the HTTP call: the parameters that are sent
RequestParams(params, signed, clock) ==
    IF signed
    THEN LET p1 == DictSet(params, "timestamp", PInt(clock))
         IN DictSet(p1, "signature", PHex(_generate_signature(p1)))
    ELSE params

TimeoutSeconds == 10

\* session.get/post/delete(url, params=params, timeout=10): the request as
\* the exchange receives it
HttpRequest(method, endpoint, params) ==
    [method |-> method, endpoint |-> endpoint, query |-> urlencode(params),
     timeout |-> TimeoutSeconds]

\* place_order builds its parameters; a LIMIT order without a price is refused
PlaceOrderParams(symbol, side, order_type, quantity, price) ==
    LET base == <<Item("symbol", PStr(symbol)), Item("side", PStr(side)),
                  Item("type", PStr(order_type)), Item("quantity", PFloat(quantity))>>
    IN IF order_type = Word("LIMIT")
       THEN IF price = None
            THEN Raise(Exc("ValueError", "Price is required for LIMIT orders", None))
            ELSE Ret(DictSet(DictSet(base, "price", PFloat(price)),
                             "timeInForce", PStr(<<"G","T","C">>)))
       ELSE Ret(base)

\* get_order and cancel_order send the same two parameters
OrderIdParams(symbol, order_id) ==
    <<Item("symbol", PStr(symbol)), Item("orderId", PInt(order_id))>>

----------------------------------------------------------------------------
(* HTTP replies and JSON bodies.                                           *)
(*                                                                         *)
(* The HTTP layer answers a request with a timeout, a connection failure,  *)
(* another failure of the library, or a response (status, body).  A body   *)
(* is empty, text that is not JSON, or JSON: an object (a function from    *)
(* keys to values) or a list.                                              *)

JObj(f) == [t |-> "obj", f |-> f]

JList == [t |-> "list", f |-> <<>>]

\* dict.get(key, default)
JGet(j, k, default) == IF k \in DOMAIN j.f THEN j.f[k] ELSE default

EmptyBody == [text |-> "empty", json |-> None]

NotJsonBody == [text |-> "notjson", json |-> None]

JsonBody(j) == [text |-> "json", json |-> j]

TimeoutReply == [kind |-> "timeout", status |-> 0, body |-> EmptyBody]

ConnectionErrorReply == [kind |-> "connection_error", status |-> 0, body |-> EmptyBody]

\* any other failure of the HTTP library (too many redirects, a body cut short)
RequestErrorReply == [kind |-> "request_error", status |-> 0, body |-> EmptyBody]

Response(status, body) == [kind |-> "response", status |-> status, body |-> body]

\* response.json()
ResponseJson(body) ==
    IF body.text = "json" THEN Ret(body.json)
    ELSE Raise(Exc("JSONDecodeError", "Expecting value", None))

\* a faulty variant: the error reports the HTTP status in place of the
\* exchange's code
RequestOutcome_StatusForCode(reply) ==
    IF reply.kind = "timeout"
    THEN Raise(Exc("Timeout", "request timed out", None))
    ELSE IF reply.kind = "connection_error"
    THEN Raise(Exc("ConnectionError", "connection failed", None))
    ELSE IF reply.kind = "request_error"
    THEN Raise(Exc("RequestException", "request failed", None))
    ELSE IF reply.status # 200
    THEN LET data == IF reply.body.text # "empty" THEN ResponseJson(reply.body)
                     ELSE Ret(JObj(<<>>))
         IN IF ~data.ok THEN data
            ELSE IF data.val.t # "obj"
            THEN Raise(Exc("AttributeError", "object has no attribute 'get'", None))
            ELSE Raise(Exc("ValueError", "API Error",
                           [code |-> reply.status,
                            msg |-> JGet(data.val, "msg", "Unknown error")]))
    ELSE ResponseJson(reply.body)

\* _request from the HTTP call on: the status check and the except clauses,
\* each of which logs and re-raises
RequestOutcome(reply) ==
    IF reply.kind = "timeout"
    THEN Raise(Exc("Timeout", "request timed out", None))
    ELSE IF reply.kind = "connection_error"
    THEN Raise(Exc("ConnectionError", "connection failed", None))
    ELSE IF reply.kind = "request_error"
    THEN Raise(Exc("RequestException", "request failed", None))
    ELSE IF reply.status # 200
    THEN LET data == IF reply.body.text # "empty" THEN ResponseJson(reply.body)
                     ELSE Ret(JObj(<<>>))
         IN IF ~data.ok THEN data
            ELSE IF data.val.t # "obj"
            THEN Raise(Exc("AttributeError", "object has no attribute 'get'", None))
            ELSE Raise(Exc("ValueError", "API Error",
                           [code |-> JGet(data.val, "code", "N/A"),
                            msg |-> JGet(data.val, "msg", "Unknown error")]))
    ELSE ResponseJson(reply.body)

----------------------------------------------------------------------------
(* orders.py: OrderManager                                                 *)

\* _print_order_summary: the price line shows the price when it is truthy
OrderSummary(v) ==
    [what |-> "ORDER REQUEST SUMMARY", symbol |-> v.symbol, side |-> v.side,
     type |-> v.order_type, quantity |-> FloatRepr(v.quantity),
     price |-> IF v.price # None /\ FloatTruthy(v.price)
               THEN FloatRepr(v.price) ELSE "MARKET PRICE"]

\* the closing line of _print_order_response, chosen by the status; the
\* glyph that starts the line is written by its name
StatusLine(status) ==
    CASE status = "FILLED"           -> "(check) ORDER FILLED SUCCESSFULLY"
      [] status = "NEW"              -> "(check) ORDER PLACED SUCCESSFULLY (PENDING)"
      [] status = "PARTIALLY_FILLED" -> "(warning) ORDER PARTIALLY FILLED"
      [] status = "CANCELED"         -> "(cross) ORDER CANCELED"
      [] status = "REJECTED"         -> "(cross) ORDER REJECTED"
      [] OTHER                       -> "(info) ORDER STATUS"

\* _print_order_response: what it prints, and the exception that ends it
\* (None when it returns).  avgPrice is a string, defaulting to '0'.
_print_order_response(response) ==
    LET header == [what |-> "ORDER RESPONSE"] IN
    IF response.t # "obj"
    THEN [prints |-> <<header>>,
          exc |-> Exc("AttributeError", "object has no attribute 'get'", None)]
    ELSE LET status == JGet(response, "status", "N/A")
             avg == JGet(response, "avgPrice", <<"0">>)
             fields == [what |-> "fields", status |-> status]
             avgF == IF avg # <<>> THEN ParseFloat(avg) ELSE Ret(NaN)
             line == [what |-> StatusLine(status), status |-> status]
         IN IF avg # <<>> /\ ~avgF.ok
            THEN [prints |-> <<header, fields>>, exc |-> avgF.exc]
            ELSE IF avg # <<>> /\ FloatGt(avgF.val, FloatOfInt(0))
            THEN [prints |-> <<header, fields, [what |-> "Average Price"], line>>,
                  exc |-> None]
            ELSE [prints |-> <<header, fields, line>>, exc |-> None]

----------------------------------------------------------------------------
(* One call, from the HTTP request to what the caller gets.                *)

SignedOps == {"place_order", "get_order_status", "cancel_order", "get_account_info"}

\* the request each operation hands to _request (all of them signed)
ClientRequest(o, a, v) ==
    CASE o = "place_order" ->
           LET p == PlaceOrderParams(v.symbol, v.side, v.order_type, v.quantity, v.price)
           IN IF p.ok
              THEN Ret([method |-> "POST", endpoint |-> "/fapi/v1/order", params |-> p.val])
              ELSE p
      [] o = "get_order_status" ->
           Ret([method |-> "GET", endpoint |-> "/fapi/v1/order",
                params |-> OrderIdParams(a.symbol, a.order_id)])
      [] o = "cancel_order" ->
           Ret([method |-> "DELETE", endpoint |-> "/fapi/v1/order",
                params |-> OrderIdParams(a.symbol, a.order_id)])
      [] o = "get_account_info" ->
           Ret([method |-> "GET", endpoint |-> "/fapi/v2/account", params |-> <<>>])

Outcome(prints, out) == [prints |-> prints, out |-> out]

\* what the rest of the call does with the reply: _request, then the client
\* method, then the OrderManager method
Complete(o, a, reply) ==
    LET rq == RequestOutcome(reply) IN
    CASE o = "place_order" ->
           IF ~rq.ok THEN Outcome(<<>>, rq)
           ELSE IF rq.val.t # "obj"
           THEN Outcome(<<>>, Raise(Exc("AttributeError", "object has no attribute 'get'", None)))
           ELSE LET pr == _print_order_response(rq.val)
                IN Outcome(pr.prints, IF pr.exc = None THEN rq ELSE Raise(pr.exc))
      [] o = "get_order_status" ->
           IF ~rq.ok THEN Outcome(<<>>, rq)
           ELSE LET pr == _print_order_response(rq.val)
                IN Outcome(pr.prints, IF pr.exc = None THEN rq ELSE Raise(pr.exc))
      [] o = "cancel_order" ->
           IF rq.ok
           THEN Outcome(<<[what |-> "(check) Order canceled successfully"]>>, rq)
           ELSE Outcome(<<[what |-> "(cross) Failed to cancel order"]>>, rq)
      [] o = "get_account_info" -> Outcome(<<>>, rq)

----------------------------------------------------------------------------
(* The inputs the calls are run on.                                        *)

Symbols ==
    { <<>>,
      <<"b","t","c","u","s","d","t">>,
      <<"b","t","c">>,
      <<"b","t","c","-","u","s","d">>,
      <<"s","t","r","a",SharpS,"e">>,
      <<"B","N","B","U","S","\n">> }

Sides == { <<>>, <<"b","u","y">>, <<"S","E","L","L">>, <<"h","o","l","d">> }

OrderTypes ==
    { <<>>, <<"m","a","r","k","e","t">>, <<"L","I","M","I","T">>,
      <<"l","i","m","i","t">>, <<"S","T","O","P">> }

Quantities ==
    { <<"0",".","0","0","1">>, <<"a","b","c">>, <<"0">>, <<"-","1">>,
      <<"1","0","0","0","0","0","0">>, <<"1","0","0","0","0","0","1">>,
      <<"n","a","n">>, <<"i","n","f">> }

Prices ==
    { NoneStr, Some(<<>>), Some(<<"5","0","0","0">>), Some(<<"0">>),
      Some(<<"-","5">>), Some(<<"a","b","c">>), Some(<<"N","a","N">>),
      Some(<<"1","e","9","9","9">>) }

OrderIds == {7}

Statuses ==
    {"FILLED", "NEW", "PARTIALLY_FILLED", "CANCELED", "REJECTED", "EXPIRED"}

AvgPrices == { <<"0",".","0">>, <<"1","2",".","5">>, <<>>, <<"a","b","c">> }

\* an order as the exchange reports it, with the fields named in keys
OrderObject(keys, st, ap) ==
    JObj([k \in keys |->
            CASE k = "orderId" -> 7 [] k = "status" -> st [] k = "avgPrice" -> ap])

\* JSON objects an exchange answer may hold: every status, every avgPrice,
\* and an order without its status or without its avgPrice
OrderObjects ==
    {OrderObject({"orderId", "status", "avgPrice"}, st, <<"0",".","0">>) : st \in Statuses}
    \cup {OrderObject({"orderId", "status", "avgPrice"}, "FILLED", ap) : ap \in AvgPrices}
    \cup {OrderObject({"orderId", "avgPrice"}, "N/A", <<"1","2",".","5">>),
          OrderObject({"orderId", "status"}, "NEW", <<"0">>)}

ErrorObjects ==
    { JObj([k \in {"code", "msg"} |-> IF k = "code" THEN -1013 ELSE "Invalid quantity"]),
      JObj([k \in {"code", "msg"} |-> IF k = "code" THEN -2019 ELSE "Margin is insufficient"]),
      JObj([k \in {"msg"} |-> "Service unavailable"]),
      JObj(<<>>) }

Bodies ==
    {EmptyBody, NotJsonBody, JsonBody(JList)}
    \cup {JsonBody(j) : j \in OrderObjects \cup ErrorObjects}

HttpStatuses == {200, 400}

Replies ==
    {TimeoutReply, ConnectionErrorReply, RequestErrorReply}
    \cup {Response(st, b) : st \in HttpStatuses, b \in Bodies}

----------------------------------------------------------------------------
(* The calls.                                                              *)

\* a call starts from nothing printed, nothing sent, nothing raised
Fresh ==
    /\ printed = <<>> /\ wire = <<>> /\ nclient = 0 /\ http = None
    /\ returned = None /\ result = None
    /\ UNCHANGED <<printed, wire, nclient, http, returned, result>>

Init ==
    /\ pc = "idle"
    /\ op = "none"
    /\ args = None
    /\ validated = None
    /\ result = None
    /\ printed = <<>>
    /\ nclient = 0
    /\ wire = <<>>
    /\ http = None
    /\ now = 0
    /\ raised = None
    /\ returned = None

\* a faulty variant: place_order wraps the ValidationError in a new exception
PlaceOrderCall_Wrapped ==
    /\ pc = "idle"
    /\ \E sym \in Symbols, side \in Sides, ot \in OrderTypes,
          q \in Quantities, p \in Prices :
         \E r \in {validate_order_params(sym, side, ot, q, p)} :
         /\ args' = [symbol |-> sym, side |-> side, order_type |-> ot,
                     quantity |-> q, price |-> p]
         /\ IF r.ok
            THEN validated' = r.val /\ raised' = None /\ pc' = "summary"
            ELSE /\ validated' = None
                 /\ raised' = Exc("Exception", "Order failed", r.exc)
                 /\ pc' = "done"
    /\ op' = "place_order"
    /\ Fresh
    /\ UNCHANGED now

\* OrderManager.place_order up to the end of validation: a ValidationError
\* is logged and re-raised to the caller
PlaceOrderCall ==
    /\ pc = "idle"
    /\ \E sym \in Symbols, side \in Sides, ot \in OrderTypes,
          q \in Quantities, p \in Prices :
         \E r \in {validate_order_params(sym, side, ot, q, p)} :
         /\ args' = [symbol |-> sym, side |-> side, order_type |-> ot,
                     quantity |-> q, price |-> p]
         /\ IF r.ok
            THEN validated' = r.val /\ raised' = None /\ pc' = "summary"
            ELSE validated' = None /\ raised' = r.exc /\ pc' = "done"
    /\ op' = "place_order"
    /\ Fresh
    /\ UNCHANGED now

\* get_order_status, cancel_order and get_account_info validate nothing
PassThroughCall ==
    /\ pc = "idle"
    /\ \E o \in SignedOps \ {"place_order"} :
         /\ op' = o
         /\ IF o = "get_account_info" THEN args' = None
            ELSE \E sym \in Symbols, id \in OrderIds :
                    args' = [symbol |-> sym, order_id |-> id]
    /\ validated' = None
    /\ raised' = None
    /\ pc' = "client"
    /\ Fresh
    /\ UNCHANGED now

\* place_order prints the request summary before it calls the client
PrintOrderSummary ==
    /\ pc = "summary"
    /\ printed' = Append(printed, OrderSummary(validated))
    /\ pc' = "client"
    /\ UNCHANGED <<op, args, validated, result, nclient, wire, http, now,
                   raised, returned>>

\* the client method builds its parameters and _request signs and sends them
ClientSend ==
    /\ pc = "client"
    /\ nclient' = nclient + 1
    /\ \E rq \in {ClientRequest(op, args, validated)} :
       IF rq.ok
       THEN /\ wire' = Append(wire, HttpRequest(rq.val.method, rq.val.endpoint,
                                   RequestParams(rq.val.params, TRUE, now)))
            /\ pc' = "http"
            /\ UNCHANGED raised
       ELSE /\ raised' = rq.exc
            /\ pc' = "done"
            /\ UNCHANGED wire
    /\ UNCHANGED <<op, args, validated, result, printed, http, now, returned>>

\* a faulty variant: after a timeout the request is sent once more
HttpReply_Retry ==
    /\ pc = "http"
    /\ \E reply \in Replies :
         \E c \in {Complete(op, args, reply)} :
         /\ http' = reply
         /\ IF reply.kind = "timeout" /\ Len(wire) < 2
            THEN /\ pc' = "client"
                 /\ UNCHANGED <<printed, returned, raised>>
            ELSE /\ pc' = "done"
                 /\ printed' = printed \o c.prints
                 /\ IF c.out.ok
                    THEN returned' = c.out.val /\ raised' = None
                    ELSE returned' = None /\ raised' = c.out.exc
    /\ UNCHANGED <<op, args, validated, result, nclient, wire, now>>

\* the HTTP layer answers and the call runs to its end
HttpReply ==
    /\ pc = "http"
    /\ \E reply \in Replies :
         \E c \in {Complete(op, args, reply)} :
         /\ http' = reply
         /\ printed' = printed \o c.prints
         /\ IF c.out.ok
            THEN returned' = c.out.val /\ raised' = None
            ELSE returned' = None /\ raised' = c.out.exc
    /\ pc' = "done"
    /\ UNCHANGED <<op, args, validated, result, nclient, wire, now>>

\* the caller has the outcome; the client and the manager keep no state of
\* the call, and the next call starts from scratch
Return ==
    /\ pc = "done"
    /\ pc' = "idle"
    /\ op' = "none"
    /\ args' = None
    /\ validated' = None
    /\ result' = None
    /\ printed' = <<>>
    /\ nclient' = 0
    /\ wire' = <<>>
    /\ http' = None
    /\ raised' = None
    /\ returned' = None
    /\ UNCHANGED now

\* time passes
Tick ==
    /\ now < MaxClock
    /\ now' = now + 1
    /\ UNCHANGED <<pc, op, args, validated, result, printed, nclient, wire,
                   http, raised, returned>>

Next ==
    \/ PlaceOrderCall
    \/ PassThroughCall
    \/ PrintOrderSummary
    \/ ClientSend
    \/ HttpReply
    \/ Return
    \/ Tick

Spec == Init /\ [][Next]_vars

----------------------------------------------------------------------------
(* Unit calls of the validators, on every string up to a length.           *)

SymAlphabet == {"A", "a", "7", "-", "\n"}

NumAlphabet == {"0", "1", "6", ".", "-", "e", "n", "a", "i", "f"}

InitSymbol ==
    /\ pc = "idle"
    /\ op = "none"
    /\ args \in {[symbol |-> s] : s \in AllStrings(SymAlphabet, MaxSymLen)}
    /\ validated = None
    /\ result = None
    /\ printed = <<>>
    /\ nclient = 0
    /\ wire = <<>>
    /\ http = None
    /\ now = 0
    /\ raised = None
    /\ returned = None

CallValidateSymbol ==
    /\ pc = "idle"
    /\ op' = "validate_symbol"
    /\ result' = validate_symbol(args.symbol)
    /\ pc' = "done"
    /\ UNCHANGED <<args, validated, printed, nclient, wire, http, now, raised, returned>>

NextSymbol == CallValidateSymbol

SpecSymbol == InitSymbol /\ [][NextSymbol]_vars

InitNumber ==
    /\ pc = "idle"
    /\ op = "none"
    /\ args \in {[text |-> s] : s \in AllStrings(NumAlphabet, MaxNumLen)}
    /\ validated = None
    /\ result = None
    /\ printed = <<>>
    /\ nclient = 0
    /\ wire = <<>>
    /\ http = None
    /\ now = 0
    /\ raised = None
    /\ returned = None

CallValidateQuantity ==
    /\ pc = "idle"
    /\ op' = "validate_quantity"
    /\ result' = validate_quantity(args.text)
    /\ pc' = "done"
    /\ UNCHANGED <<args, validated, printed, nclient, wire, http, now, raised, returned>>

\* validate_price on the string, and on None in place of the empty string
CallValidatePrice ==
    /\ pc = "idle"
    /\ \E ot \in {Word("MARKET"), Word("LIMIT")}, p \in {Some(args.text), NoneStr} :
         /\ p = NoneStr => args.text = <<>>
         /\ op' = "validate_price"
         /\ validated' = [order_type |-> ot, price |-> p]
         /\ result' = validate_price(p, ot)
    /\ pc' = "done"
    /\ UNCHANGED <<args, printed, nclient, wire, http, now, raised, returned>>

NextNumber == CallValidateQuantity \/ CallValidatePrice

SpecNumber == InitNumber /\ [][NextNumber]_vars

----------------------------------------------------------------------------
(* cli.py: main.                                                           *)
(*                                                                         *)
(* A run of main takes its arguments as argparse hands them over and the   *)
(* two environment variables.  result holds whether a BinanceClient was    *)
(* created and the exit code.                                              *)

\* the classes an exception is an instance of, by its type: a JSON decoding
\* error is a ValueError, the exceptions of the HTTP library are IOErrors,
\* and EnvironmentError and IOError are names of OSError
ExcClasses(e) ==
    CASE e.type = "JSONDecodeError" -> {"JSONDecodeError", "ValueError"}
      [] e.type \in {"Timeout", "ConnectionError"} ->
             {e.type, "RequestException", "OSError"}
      [] e.type = "RequestException" -> {"RequestException", "OSError"}
      [] OTHER                      -> {e.type}

ExitSuccess == 0

ExitFailure == 1

ExitInterrupt == 130

NotExited == -1

\* the except clause of main that takes the exception, by what it prints;
\* whether the HTTP library's JSON decoding error is also one of its own
\* IOErrors depends on the library's version
MainHandlers(e) ==
    LET c == ExcClasses(e) IN
    IF "OSError" \in c THEN {"Configuration Error"}
    ELSE IF "ValidationError" \in c THEN {"Validation Error"}
    ELSE IF "ValueError" \in c
    THEN IF e.type = "JSONDecodeError" THEN {"Configuration Error", "Error"}
         ELSE {"Error"}
    ELSE IF "KeyboardInterrupt" \in c THEN {"Operation cancelled by user"}
    ELSE {"Unexpected Error"}

\* a faulty variant: the interrupt is handled like any other error
ExitCode_InterruptAsError(handler) == ExitFailure

\* the exit code of each except clause of main
ExitCode(handler) ==
    IF handler = "Operation cancelled by user" THEN ExitInterrupt ELSE ExitFailure

\* load_credentials: both variables must be set and not empty
load_credentials(key, secret) ==
    IF IsFalsyStr(key) \/ IsFalsyStr(secret)
    THEN Raise(Exc("OSError", "API credentials not found", None))
    ELSE Ret(<<key, secret>>)

\* validate_args: a LIMIT order needs a price; a price with a MARKET order
\* is warned about
validate_args(a) ==
    IF Upper(a.order_type) = Word("LIMIT") /\ IsFalsyStr(a.price)
    THEN [prints |-> <<>>,
          exc |-> Exc("ValueError", "Price (--price) is required for LIMIT orders", None)]
    ELSE IF Upper(a.order_type) = Word("MARKET") /\ ~IsFalsyStr(a.price)
    THEN [prints |-> <<[what |-> "(warning) Warning: Price will be ignored for MARKET orders"]>>,
          exc |-> None]
    ELSE [prints |-> <<>>, exc |-> None]

\* test_connection: the ping, then the account; what it prints, the requests
\* it sends and whether it succeeded
test_connection(ping, account, clock) ==
    LET pingRq == HttpRequest("GET", "/fapi/v1/ping", RequestParams(<<>>, FALSE, clock))
        accRq == HttpRequest("GET", "/fapi/v2/account", RequestParams(<<>>, TRUE, clock))
        acc == RequestOutcome(account)
    IN IF ~RequestOutcome(ping).ok
       THEN [prints |-> <<[what |-> "(cross) Connection failed!"]>>,
             sent |-> <<pingRq>>, success |-> FALSE]
       ELSE IF acc.ok /\ acc.val.t = "obj"
       THEN [prints |-> <<[what |-> "(check) Connection successful!"],
                          [what |-> "(check) Account access successful!"]>>,
             sent |-> <<pingRq, accRq>>, success |-> TRUE]
       ELSE [prints |-> <<[what |-> "(check) Connection successful!"],
                          [what |-> "(cross) Failed to access account"]>>,
             sent |-> <<pingRq, accRq>>, success |-> FALSE]

\* the arguments argparse lets through: --side and --type are limited to
\* their choices in upper or lower case, the others are free strings
CliSymbols == { <<"b","t","c","u","s","d","t">>, <<"b","t","c">> }

CliSides == { <<"B","U","Y">>, <<"s","e","l","l">> }

CliOrderTypes == { <<"M","A","R","K","E","T">>, <<"l","i","m","i","t">> }

CliQuantities == { <<"0",".","0","0","1">>, <<"a","b","c">> }

CliPrices == { NoneStr, Some(<<>>), Some(<<"5","0","0","0">>), Some(<<"a","b","c">>) }

\* an environment variable: not set, set to nothing, set
EnvValues == { NoneStr, Some(<<>>), Some(<<"k","e","y">>) }

\* what the HTTP layer answers to the ping and to the account request
PingReplies ==
    { TimeoutReply, Response(200, JsonBody(JObj(<<>>))), Response(400, EmptyBody) }

AccountReplies ==
    { ConnectionErrorReply, Response(200, JsonBody(JObj(<<>>))),
      Response(200, JsonBody(JList)), Response(400, NotJsonBody) }

InitCli ==
    /\ pc = "idle"
    /\ op = "none"
    /\ args = None
    /\ validated = None
    /\ result = [client |-> FALSE, code |-> NotExited]
    /\ printed = <<>>
    /\ nclient = 0
    /\ wire = <<>>
    /\ http = None
    /\ now = 0
    /\ raised = None
    /\ returned = None

\* an exception reaches the except clauses of main: one of them prints its
\* line and exits
ExitWith(e, prints) ==
    \E handler \in MainHandlers(e) :
        /\ printed' = (printed \o prints) \o <<[what |-> handler]>>
        /\ result' = [result EXCEPT !.code = ExitCode(handler)]
        /\ raised' = e
        /\ pc' = "exited"

\* main up to the try: the arguments are parsed and logging is set up;
\* an error of setup_logging is caught by nothing and ends the interpreter
\* with exit code 1
MainStart ==
    /\ pc = "idle"
    /\ \E sym \in CliSymbols, side \in CliSides, ot \in CliOrderTypes,
          q \in CliQuantities, p \in CliPrices, test \in BOOLEAN,
          key \in EnvValues, secret \in EnvValues :
         args' = [symbol |-> sym, side |-> side, order_type |-> ot,
                  quantity |-> q, price |-> p, test_connection |-> test,
                  api_key |-> key, api_secret |-> secret]
    /\ op' = "main"
    /\ \E logging_ok \in BOOLEAN :
         IF logging_ok
         THEN pc' = "credentials" /\ UNCHANGED <<result, raised>>
         ELSE /\ pc' = "exited"
              /\ raised' = Exc("OSError", "cannot create the log file", None)
              /\ result' = [result EXCEPT !.code = ExitFailure]
    /\ UNCHANGED <<validated, printed, nclient, wire, http, now, returned>>

\* load_credentials, then BinanceClient(api_key, api_secret)
MainLoadCredentials ==
    /\ pc = "credentials"
    /\ \E r \in {load_credentials(args.api_key, args.api_secret)} :
       IF r.ok
       THEN /\ result' = [result EXCEPT !.client = TRUE]
            /\ pc' = IF args.test_connection THEN "test_connection" ELSE "validate_args"
            /\ UNCHANGED <<printed, raised>>
       ELSE ExitWith(r.exc, <<>>)
    /\ UNCHANGED <<op, args, validated, nclient, wire, http, now, returned>>

\* --test-connection: sys.exit(0 if success else 1)
MainTestConnection ==
    /\ pc = "test_connection"
    /\ \E ping \in PingReplies, account \in AccountReplies :
         \E t \in {test_connection(ping, account, now)} :
         /\ printed' = printed \o t.prints
         /\ wire' = wire \o t.sent
         /\ http' = IF Len(t.sent) = 1 THEN ping ELSE account
         /\ result' = [result EXCEPT
                         !.code = IF t.success THEN ExitSuccess ELSE ExitFailure]
    /\ pc' = "exited"
    /\ UNCHANGED <<op, args, validated, nclient, now, raised, returned>>

MainValidateArgs ==
    /\ pc = "validate_args"
    /\ \E v \in {validate_args(args)} :
       IF v.exc = None
       THEN /\ printed' = printed \o v.prints
            /\ pc' = "order"
            /\ UNCHANGED <<result, raised>>
       ELSE ExitWith(v.exc, v.prints)
    /\ UNCHANGED <<op, args, validated, nclient, wire, http, now, returned>>

\* OrderManager(client).place_order(...) up to the end of validation
MainPlaceOrder ==
    /\ pc = "order"
    /\ \E sym \in {args.symbol}, side \in {args.side}, ot \in {args.order_type},
          q \in {args.quantity}, p \in {args.price} :
         \E r \in {validate_order_params(sym, side, ot, q, p)} :
         IF r.ok
         THEN validated' = r.val /\ raised' = None /\ pc' = "summary"
         ELSE validated' = None /\ raised' = r.exc /\ pc' = "done"
    /\ op' = "place_order"
    /\ UNCHANGED <<args, result, printed, nclient, wire, http, now, returned>>

\* place_order is over: sys.exit(0) when it returned, the except clause of
\* its exception when it raised
MainExit ==
    /\ pc = "done"
    /\ IF raised = None
       THEN /\ result' = [result EXCEPT !.code = ExitSuccess]
            /\ pc' = "exited"
            /\ UNCHANGED <<printed, raised>>
       ELSE ExitWith(raised, <<>>)
    /\ UNCHANGED <<op, args, validated, nclient, wire, http, now, returned>>

\* the user interrupts a run that is inside the try
MainInterrupt ==
    /\ pc \in {"credentials", "test_connection", "validate_args", "order",
               "summary", "client", "http"}
    /\ ExitWith(Exc("KeyboardInterrupt", "", None), <<>>)
    /\ UNCHANGED <<op, args, validated, nclient, wire, http, now, returned>>

NextCli ==
    \/ MainStart
    \/ MainLoadCredentials
    \/ MainTestConnection
    \/ MainValidateArgs
    \/ MainPlaceOrder
    \/ PrintOrderSummary
    \/ ClientSend
    \/ HttpReply
    \/ MainExit
    \/ MainInterrupt

SpecCli == InitCli /\ [][NextCli]_vars

----------------------------------------------------------------------------
(* Signed calls of _request in a row.                                      *)
(*                                                                         *)
(* _request writes timestamp and signature into the mapping it is handed,  *)
(* so the caller's mapping keeps them after the call.  args is the mapping *)
(* the caller holds.                                                       *)

RequestMappings == { <<>>, OrderIdParams(<<"B","T","C","U","S","D","T">>, 7) }

RequestReplies == { TimeoutReply, Response(200, JsonBody(JObj(<<>>))) }

InitRequest ==
    /\ pc = "idle"
    /\ op = "none"
    /\ args = <<>>
    /\ validated = None
    /\ result = None
    /\ printed = <<>>
    /\ nclient = 0
    /\ wire = <<>>
    /\ http = None
    /\ now = 0
    /\ raised = None
    /\ returned = None

\* _request('GET', '/fapi/v1/order', params, signed=True)
RequestCall(params) ==
    /\ Len(wire) < MaxCalls
    /\ \E sent \in {RequestParams(params, TRUE, now)} :
       /\ args' = sent
       /\ wire' = Append(wire, HttpRequest("GET", "/fapi/v1/order", sent))
    /\ \E reply \in RequestReplies :
         \E out \in {RequestOutcome(reply)} :
         /\ http' = reply
         /\ IF out.ok
            THEN returned' = out.val /\ raised' = None
            ELSE returned' = None /\ raised' = out.exc
    /\ op' = "_request"
    /\ nclient' = nclient + 1
    /\ UNCHANGED <<pc, validated, result, printed, now>>

\* the caller builds a new mapping for the call
RequestFresh == \E params \in RequestMappings : RequestCall(params)

\* the caller hands over the mapping of its last call once more
RequestSame == nclient > 0 /\ RequestCall(args)

NextRequest == RequestFresh \/ RequestSame \/ Tick

SpecRequest == InitRequest /\ [][NextRequest]_vars

----------------------------------------------------------------------------
(* Properties.                                                             *)

\* two exceptions are the same one
SameExc(e1, e2) == e1.type = e2.type /\ e1.text = e2.text /\ e1.arg = e2.arg

IsExc(x) == x # None

\* each of the five fields passes its own check, the price against the
\* upper-cased order type
FieldsValid(a) ==
    /\ validate_symbol(a.symbol).ok
    /\ validate_side(a.side).ok
    /\ validate_order_type(a.order_type).ok
    /\ validate_quantity(a.quantity).ok
    /\ validate_price(a.price, Upper(a.order_type)).ok

\* the error of the first field, in the order symbol, side, order type,
\* quantity, price, that fails its check
FirstInvalid(a) ==
    IF ~validate_symbol(a.symbol).ok THEN validate_symbol(a.symbol).exc
    ELSE IF ~validate_side(a.side).ok THEN validate_side(a.side).exc
    ELSE IF ~validate_order_type(a.order_type).ok
    THEN validate_order_type(a.order_type).exc
    ELSE IF ~validate_quantity(a.quantity).ok THEN validate_quantity(a.quantity).exc
    ELSE validate_price(a.price, Upper(a.order_type)).exc

\* the text of the field `key` of a query string
QueryText(q, key) == q[CHOOSE j \in DOMAIN q : q[j].key = key].text

QueryKeys(q) == {q[j].key : j \in DOMAIN q}

\* C1: in place_order, when validate_order_params fails, the call is over with
\* that same ValidationError raised to the caller, nothing printed, the client
\* never invoked and no request sent; the client is invoked and a request is
\* sent only when all five fields are valid.
C1_ValidationFailureEndsTheCall ==
    op = "place_order" =>
        LET r == validate_order_params(args.symbol, args.side, args.order_type,
                                       args.quantity, args.price)
        IN /\ ~r.ok =>
                /\ pc = "done"
                /\ IsExc(raised) /\ SameExc(raised, r.exc)
                /\ raised.type = "ValidationError"
                /\ printed = <<>> /\ nclient = 0 /\ wire = <<>>
                /\ returned = None
           /\ (nclient > 0 \/ wire # <<>>) => FieldsValid(args) /\ validated # None

C1_Witness ==
    /\ op = "place_order" /\ pc = "done"
    /\ IsExc(raised) /\ raised.type = "ValidationError"
    /\ raised.text = "Invalid price format"
    /\ printed = <<>> /\ nclient = 0 /\ wire = <<>>

\* C2: validate_order_params is fail-fast in the order symbol, side, order
\* type, quantity, price: with an invalid field, the error raised is the one
\* of the first invalid field, the price being judged against the upper-cased
\* order type; with none, the five normalised values are returned.
C2_FirstInvalidFieldIsReported ==
    op = "place_order" =>
        IF FieldsValid(args)
        THEN /\ validated # None
             /\ validated.symbol = validate_symbol(args.symbol).val
             /\ validated.side = validate_side(args.side).val
             /\ validated.order_type = validate_order_type(args.order_type).val
             /\ validated.quantity = validate_quantity(args.quantity).val
             /\ validated.price = validate_price(args.price, Upper(args.order_type)).val
        ELSE /\ validated = None
             /\ IsExc(raised) /\ SameExc(raised, FirstInvalid(args))

\* an invalid side is reported although the quantity is invalid too, and so
\* is the price of what was typed as a lower-case limit order
C2_Witness ==
    /\ op = "place_order" /\ pc = "done" /\ IsExc(raised)
    /\ raised.text = "Invalid side"
    /\ args.order_type = <<"l","i","m","i","t">>
    /\ ~validate_quantity(args.quantity).ok
    /\ ~validate_price(args.price, Word("LIMIT")).ok

\* C3: price presence is decided by the order type: the validated tuple holds
\* a price exactly when the type is LIMIT, and an order request on the wire
\* holds price and timeInForce exactly when its type is LIMIT.
C3_PricePresenceFollowsOrderType ==
    /\ validated # None =>
          /\ validated.order_type \in {Word("MARKET"), Word("LIMIT")}
          /\ validated.price # None <=> validated.order_type = Word("LIMIT")
    /\ \A i \in DOMAIN wire :
          wire[i].method = "POST" =>
              LET q == wire[i].query
                  limit == QueryText(q, "type") = Word("LIMIT")
              IN /\ "price" \in QueryKeys(q) <=> limit
                 /\ "timeInForce" \in QueryKeys(q) <=> limit
                 /\ ~limit => QueryText(q, "type") = Word("MARKET")

\* a MARKET order was sent without the price the user supplied
C3_Witness ==
    /\ op = "place_order" /\ wire # <<>>
    /\ args.price = Some(<<"5","0","0","0">>)
    /\ validated.order_type = Word("MARKET")
    /\ "price" \notin QueryKeys(wire[1].query)

\* C4: every request on the wire (all are signed) carries timestamp and
\* signature once each, the signature last, and the signature is the
\* HMAC-SHA256, under the account secret, of the query string made of all the
\* fields before it, in the order sent.
C4_SignatureCoversAllOtherParams ==
    \A i \in DOMAIN wire :
        LET q == wire[i].query
            n == Len(q)
        IN /\ n >= 2
           /\ q[n].key = "signature"
           /\ \A j \in 1..(n - 1) : q[j].key # "signature"
           /\ Cardinality({j \in 1..(n - 1) : q[j].key = "timestamp"}) = 1
           /\ q[n].text = <<HmacSha256Hex(api_secret, SubSeq(q, 1, n - 1))>>

\* a LIMIT order on the wire: six fields, then timestamp, then signature
C4_Witness ==
    /\ wire # <<>>
    /\ op = "place_order"
    /\ Len(wire[1].query) = 8
    /\ wire[1].query[7].key = "timestamp"
    /\ wire[1].query[8].key = "signature"

\* C5: a successful validation returns a finite quantity q, 0 < q <= 1000000,
\* and for LIMIT a finite price p > 0; a NaN or infinite quantity or price is
\* never sent.
C5_ValidatedNumbersAreFinite ==
    /\ validated # None =>
          /\ IsFinite(validated.quantity)
          /\ FloatGt(validated.quantity, FloatOfInt(0))
          /\ FloatLe(validated.quantity, FloatOfInt(QuantityMax))
          /\ validated.order_type = Word("LIMIT") =>
                IsFinite(validated.price) /\ FloatGt(validated.price, FloatOfInt(0))
    /\ \A i \in DOMAIN wire :
          wire[i].method = "POST" =>
              \A j \in DOMAIN wire[i].query :
                  wire[i].query[j].key \in {"quantity", "price"} =>
                      wire[i].query[j].text \notin
                          {<<"n","a","n">>, <<"i","n","f">>, <<"-","i","n","f">>}

\* the string matches [A-Z0-9]{6,} from its first to its last character
MatchesAZ09x6(s) == Len(s) >= 6 /\ \A i \in DOMAIN s : InClassAZ09(s[i])

\* the upper-cased string is one or more characters of [A-Z0-9], then at most
\* one newline, and is at least 6 characters long, the newline counted
UpperedIsSymbol(s) ==
    LET u == Upper(s)
        core == IF u # <<>> /\ u[Len(u)] = "\n" THEN SubSeq(u, 1, Len(u) - 1) ELSE u
    IN /\ core # <<>>
       /\ \A i \in DOMAIN core : InClassAZ09(core[i])
       /\ Len(u) >= 6

C7_MarketPriceIsDiscarded ==
    (op = "validate_price" /\ pc = "done"
        /\ validated.order_type = Word("MARKET")) =>
        result.ok /\ result.val = None

\* a price that is not a number was handed in with a MARKET order
C7_Witness ==
    /\ op = "validate_price" /\ pc = "done"
    /\ validated.order_type = Word("MARKET")
    /\ validated.price = Some(<<"1","-","a",".">>)
    /\ result.ok /\ result.val = None

\* C8: for order type LIMIT validate_price raises a ValidationError when the
\* price is None, empty, not a number or <= 0, and returns the parsed price
\* otherwise; it never returns None.
C8_LimitPriceIsRequiredAndPositive ==
    (op = "validate_price" /\ pc = "done"
        /\ validated.order_type = Word("LIMIT")) =>
        LET price == validated.price IN
        IF IsFalsyStr(price)
        THEN ~result.ok /\ result.exc.type = "ValidationError"
        ELSE LET f == ParseFloat(price[1]) IN
             IF ~f.ok \/ FloatLe(f.val, FloatOfInt(0))
             THEN ~result.ok /\ result.exc.type = "ValidationError"
             ELSE result.ok /\ result.val = f.val /\ result.val # None

\* a LIMIT price of zero was refused
C8_Witness ==
    /\ op = "validate_price" /\ pc = "done"
    /\ validated.order_type = Word("LIMIT")
    /\ validated.price = Some(<<"0",".","0">>)
    /\ ~result.ok /\ result.exc.text = "Price must be positive"

\* C9: validate_quantity has exactly one of four outcomes: the format error
\* when the string does not parse, the must-be-positive error when the value
\* is <= 0, the too-large error when it is > 1000000, and otherwise the parsed
\* value itself (1000000 included); the three messages differ.
C9_QuantityOutcomes ==
    (op = "validate_quantity" /\ pc = "done") =>
        LET f == ParseFloat(args.text) IN
        /\ IF ~f.ok
           THEN ~result.ok /\ result.exc.text = "Invalid quantity format"
           ELSE IF FloatLe(f.val, FloatOfInt(0))
           THEN ~result.ok /\ result.exc.text = "Quantity must be positive"
           ELSE IF FloatGt(f.val, FloatOfInt(QuantityMax))
           THEN ~result.ok /\ result.exc.text = "Quantity seems too large"
           ELSE result.ok /\ result.val = f.val
        /\ ~result.ok => result.exc.type = "ValidationError"
        /\ (f.ok /\ f.val = FloatOfInt(QuantityMax)) => result.ok

\* the boundary value 1000000, written 1e6, was accepted
C9_Witness ==
    /\ op = "validate_quantity" /\ pc = "done"
    /\ args.text = <<"1","e","6">>
    /\ result.ok /\ result.val = FloatOfInt(QuantityMax)

\* the body of a reply is a JSON object holding both code and msg
HasCodeAndMsg(reply) ==
    /\ reply.body.text = "json"
    /\ reply.body.json.t = "obj"
    /\ {"code", "msg"} \subseteq DOMAIN reply.body.json.f

\* C10: when the HTTP call returns a status other than 200 with a JSON object
\* holding code and msg, the call ends with the API error raised, carrying
\* that code and that msg, and nothing is returned to the caller.
C10_ApiErrorCarriesCodeAndMsg ==
    (/\ pc = "done" /\ http # None
     /\ http.kind = "response" /\ http.status # 200 /\ HasCodeAndMsg(http)) =>
        /\ returned = None
        /\ IsExc(raised)
        /\ raised.type = "ValueError" /\ raised.text = "API Error"
        /\ raised.arg.code = http.body.json.f["code"]
        /\ raised.arg.msg = http.body.json.f["msg"]

\* HTTP 400 with code -1013 and msg "Invalid quantity" on a placed order
C10_Witness ==
    /\ pc = "done" /\ op = "place_order" /\ http # None
    /\ http.kind = "response" /\ http.status = 400 /\ HasCodeAndMsg(http)
    /\ IsExc(raised) /\ raised.type = "ValueError"
    /\ raised.arg.code = -1013 /\ raised.arg.msg = "Invalid quantity"
    /\ returned = None

\* statuses other than 200 an exchange answers with
ErrorStatuses == {400, 401, 503}

\* the reply is a non-success status with a body that is empty or not JSON
UnparsableError(reply) ==
    /\ reply.kind = "response" /\ reply.status # 200
    /\ reply.body.text \in {"empty", "notjson"}

\* C11: when the HTTP call returns a non-success status with a body that is
\* empty or not JSON, the call ends with an error raised that carries the raw
\* HTTP status: the same body under another status gives another error.
C11_UnparsableBodyErrorCarriesStatus ==
    (pc = "done" /\ http # None /\ UnparsableError(http)) =>
        /\ returned = None
        /\ IsExc(raised)
        /\ \A st \in ErrorStatuses \ {http.status} :
              ~SameExc(raised, RequestOutcome(Response(st, http.body)).exc)

\* the failure classes a caller reads off the error raised
FailureClasses(e) ==
    {c \in {"Timeout", "ConnectionError", "ValueError"} : c \in ExcClasses(e)}

\* C12: every failure of _request is of exactly one of the three classes
\* timeout, connection failure and API rejection (a ValueError), told by the
\* error raised; an API rejection is raised only when an HTTP response was
\* received, a timeout only for a timeout, a connection failure only for a
\* connection failure.
C12_ThreeFailureClasses ==
    (pc = "done" /\ http # None /\ ~RequestOutcome(http).ok) =>
        LET e == RequestOutcome(http).exc IN
        /\ IsExc(raised) /\ SameExc(raised, e)
        /\ Cardinality(FailureClasses(e)) = 1
        /\ "ValueError" \in FailureClasses(e) => http.kind = "response"
        /\ "Timeout" \in FailureClasses(e) <=> http.kind = "timeout"
        /\ "ConnectionError" \in FailureClasses(e) <=> http.kind = "connection_error"

\* C13: a call of place_order, get_order_status or cancel_order sends at most
\* one HTTP request; once the HTTP layer has answered, the call is over with
\* that one request sent; and when the answer is a timeout, a connection
\* failure or an API rejection, the caller gets the very error _request
\* raised, of its original type, and no return value.
C13_FireOnce ==
    op \in {"place_order", "get_order_status", "cancel_order"} =>
        /\ Len(wire) <= 1 /\ nclient <= 1
        /\ http # None => pc = "done" /\ Len(wire) = 1
        /\ (pc = "done" /\ http # None /\ ~RequestOutcome(http).ok) =>
              /\ returned = None
              /\ IsExc(raised) /\ SameExc(raised, RequestOutcome(http).exc)

\* a cancellation that timed out: one request sent, the Timeout raised
C13_Witness ==
    /\ op = "cancel_order" /\ pc = "done"
    /\ http = TimeoutReply
    /\ Len(wire) = 1 /\ nclient = 1
    /\ IsExc(raised) /\ raised.type = "Timeout"

\* the annotation the claim gives to a status, the glyph written by its name
AnnotationFor(status) ==
    CASE status = "FILLED"           -> "(check) ORDER FILLED SUCCESSFULLY"
      [] status = "NEW"              -> "(check) ORDER PLACED SUCCESSFULLY (PENDING)"
      [] status = "PARTIALLY_FILLED" -> "(warning) ORDER PARTIALLY FILLED"
      [] status \in {"CANCELED", "REJECTED"} -> "(cross) ORDER " \o status
      [] OTHER                       -> "(info) ORDER STATUS"

AnnotationTexts ==
    {AnnotationFor(st) : st \in Statuses \cup {"N/A"}}

\* the annotation lines among what was printed
AnnotationLines(p) == {i \in DOMAIN p : p[i].what \in AnnotationTexts}

\* the transport handed a response object to place_order or get_order_status
GotResponseObject ==
    /\ pc = "done" /\ op \in {"place_order", "get_order_status"}
    /\ http # None /\ RequestOutcome(http).ok
    /\ RequestOutcome(http).val.t = "obj"

\* C14: the summary of a response renders exactly one annotation, the one of
\* the response's status ('N/A' when the response has no status field), and
\* the informational one shows the status itself.
C14_OneAnnotationByStatus ==
    GotResponseObject =>
        LET status == JGet(RequestOutcome(http).val, "status", "N/A")
            lines == AnnotationLines(printed)
        IN /\ Cardinality(lines) = 1
           /\ \A i \in lines :
                 /\ printed[i].what = AnnotationFor(status)
                 /\ printed[i].status = status

\* the lines printed that say `what`
LinesOf(p, what) == {i \in DOMAIN p : p[i].what = what}

\* C15: get_order_status and cancel_order make one client call and send one
\* request; when the transport call succeeds both run the response-rendering
\* step of place_order, which prints the ORDER RESPONSE summary; cancel_order
\* also prints its success line on success and its failure line on failure.
C15_PassThroughsRenderTheResponse ==
    (pc = "done" /\ op \in {"get_order_status", "cancel_order"} /\ http # None) =>
        /\ nclient = 1 /\ Len(wire) = 1
        /\ RequestOutcome(http).ok => LinesOf(printed, "ORDER RESPONSE") # {}
        /\ ~RequestOutcome(http).ok => LinesOf(printed, "ORDER RESPONSE") = {}
        /\ op = "cancel_order" =>
              /\ LinesOf(printed, "(check) Order canceled successfully") # {}
                    <=> RequestOutcome(http).ok
              /\ LinesOf(printed, "(cross) Failed to cancel order") # {}
                    <=> ~RequestOutcome(http).ok

\* the run found a credential variable unset or empty
CredentialsMissing == IsFalsyStr(args.api_key) \/ IsFalsyStr(args.api_secret)

C17_ResponseIsReturnedUnchanged ==
    GotResponseObject =>
        /\ raised = None
        /\ returned = RequestOutcome(http).val

\* the request a step has sent is signed over a query string that holds the
\* time of the call as its one timestamp and no signature
SignsOwnTimestampOnly ==
    LET q == wire'[Len(wire')].query
        n == Len(q)
        signed == SubSeq(q, 1, n - 1)
    IN /\ n >= 2
       /\ q[n].key = "signature"
       /\ q[n].text = <<HmacSha256Hex(api_secret, signed)>>
       /\ \A j \in DOMAIN signed : signed[j].key # "signature"
       /\ Cardinality({j \in DOMAIN signed : signed[j].key = "timestamp"}) = 1
       /\ QueryText(signed, "timestamp")
             = urlencode(<<Item("timestamp", PInt(now))>>)[1].text

\* C18: in any sequence of signed calls of _request, also when a call is
\* handed the mapping of the call before it, each call signs a query string
\* with the call's own timestamp and without a signature of an earlier call.
C18_NothingOfAnEarlierCallIsSigned ==
    [][Len(wire') = Len(wire) + 1 => SignsOwnTimestampOnly]_vars

====
